---- MODULE Spec2Model ----
(***************************************************************************)
(* Model of testcenter/stc_port.py: the STC port proxy (StcPort), the      *)
(* generator proxy (StcGenerator) and the link aggregation group (StcLag), *)
(* over a remote session that stages attribute writes and commits them on  *)
(* apply.                                                                  *)
(*                                                                         *)
(* The body of a handler is an operator over a session record (the          *)
(* proxies' fields and the remote state) that threads the record through   *)
(* the handler's statements in source order; a statement that raises       *)
(* leaves the record as the statements before it made it.  A handler runs  *)
(* as one action up to a time.sleep: wait_for_states, and reserve through  *)
(* it, is suspended in the sleep between two polls, other handlers of the  *)
(* port may run meanwhile (a signal handler, another thread), and the      *)
(* handler goes on in a later action.                                      *)
(***************************************************************************)
EXTENDS Integers, Sequences, FiniteSets

VARIABLES
    location,    \* StcPort.location of the port
    activephy,   \* StcPort.activephy of the port: a handle or NoHandle
    link,        \* remote LinkStatus of the port's active phy
    targets,     \* remote activephy-Targets of the port
    remote,      \* remote attribute values that are committed
    pending,     \* attribute writes staged and not yet applied, in order
    staged,      \* per attribute, the last value staged since the last apply
    committed,   \* per attribute, the last staged value of the last batch applied
    nextId,      \* number of phy objects the remote session holds under the port
    members,     \* remote PortSetMember-targets of the lag
    passed,      \* every port passed to add_ports so far, in order
    lacp,        \* number of LacpPortConfig children of each port
    devices,     \* remote emulated devices of the project: device -> owning port
    projIndex,   \* emulated devices the project has cached locally
    enums,       \* number of project level enumerations of emulated devices
    calls,       \* remote calls the last handler issued, in order
    last,        \* the last handler: its name, arguments, outcome
    waiters,     \* the handlers suspended in time.sleep: call, own calls, loop state
    overtakes,   \* handlers that may still run while another is suspended (Unbounded: any)
    relCalls,    \* consecutive release() calls on a non-local port
    relReqs,     \* ReleasePort requests issued by those calls
    portName,    \* remote Name of the port: a sequence of name parts
    faults,      \* number of calls the remote session may still fail
    budget       \* handler calls a bounded run may still make (Unbounded: any number)

vars == <<location, activephy, link, targets, remote, pending, staged, committed,
          nextId, members, passed, lacp, devices, projIndex, enums, calls, last, relCalls, relReqs,
          portName, faults, budget, waiters, overtakes>>

----------------------------------------------------------------------------
(* Bounds of the model. *)

MaxTimeout == 2
MaxPending == 3
MaxPhys == 2
MaxRepeat == 2
MaxMembers == 3
MaxBatch == 2
MaxEnums == 2
MaxFaults == 1
MaxSteps == 3
MaxName == 4
MaxWaiters == 1
MaxOvertake == 1

----------------------------------------------------------------------------
(* Values. *)

None == "None"
Unbounded == 0 - 1
Self == "port1"
Ports == {"port1", "port2", "port3"}
LagPort == "lag"
ProjectPorts == {"port1", "port2"}
Devices == {"dev1", "dev2"}

LocalLoc == "localhost/1/1"
RemoteLoc == "10.0.0.1/1/1"
Locations == {LocalLoc, RemoteLoc}

LinkStates == {"UP", "DOWN"}

\* A name is a sequence of parts: a run of other text, the tag STC adds to the
\* name of a port that is offline, or a newline.
Text == "Port1"
Offline == " (offline)"
Newline == "\n"
NameParts == {Text, Offline, Newline}
Names == UNION {[1..n -> NameParts] : n \in 0..MaxName}
MediaTypes == {"EthernetCopper", "EthernetFiber"}
Durations == {"10", "20"}

NoErr == "none"
RemoteQueryError == "RemoteQueryError"
TgnError == "TgnError"
AttributeError == "AttributeError"
UnboundLocalError == "UnboundLocalError"

Handle(type, port, id) == [type |-> type, port |-> port, id |-> id]
NoHandle == Handle(None, None, 0)
PortRef(p) == Handle("port", p, 0)
GeneratorRef(p) == Handle("generator", p, 0)
ConfigRef(p) == Handle("GeneratorConfig", p, 0)
LagRef == Handle("lag", LagPort, 0)

\* A remote call: val is a string it carries or returns, ref a handle it carries,
\* n the number of staged writes an apply commits, ok whether it returned.
Call(name, obj, arg, val) ==
    [name |-> name, obj |-> obj, arg |-> arg, val |-> val, ref |-> NoHandle, n |-> 0,
     ok |-> TRUE]
CallRef(name, obj, arg, ref) ==
    [name |-> name, obj |-> obj, arg |-> arg, val |-> None, ref |-> ref, n |-> 0,
     ok |-> TRUE]
\* A staged write: mode "set" replaces the attribute, "append" adds to its list.
Write(obj, attr, val, mode) == [obj |-> obj, attr |-> attr, val |-> val, mode |-> mode]
Key(obj, attr) == <<obj, attr>>

AttrKeys == {Key(PortRef(Self), "Location"), Key(ConfigRef(Self), "Duration"),
             Key(GeneratorRef(Self), "Duration")}

BoolStr(b) == IF b THEN "True" ELSE "False"

NoInfo == [states |-> {}, last |-> None, timeout |-> 0]

----------------------------------------------------------------------------
(* External collaborators. *)

\* str.lower() on the link states
Lower(s) == CASE s = "UP" -> "up"
              [] s = "DOWN" -> "down"
              [] OTHER -> s

\* trafficgenerator.tgn_utils.is_local_host on a location string
is_local_host(loc) == loc = LocalLoc

----------------------------------------------------------------------------
(* The session record and the remote primitives. *)

Session(failAt) ==
    [location |-> location, activephy |-> activephy, link |-> link,
     targets |-> targets, remote |-> remote, pending |-> pending,
     staged |-> staged, committed |-> committed, nextId |-> nextId,
     members |-> members, lacp |-> lacp, devices |-> devices,
     projIndex |-> projIndex, enums |-> enums,
     calls |-> <<>>, err |-> NoErr, info |-> NoInfo, ret |-> None, kids |-> {},
     i |-> 0, seen |-> None, sleep |-> FALSE,
     failAt |-> failAt]

Raise(c, e) == [c EXCEPT !.err = e]

\* One remote round trip: it is logged, and fails when it is the failAt-th.
api(c, call) ==
    IF c.err # NoErr THEN c
    ELSE IF Len(c.calls) + 1 = c.failAt
    THEN Raise([c EXCEPT !.calls = Append(@, [call EXCEPT !.ok = FALSE])], RemoteQueryError)
    ELSE [c EXCEPT !.calls = Append(@, call)]

\* The remote session commits the staged writes in the order they were staged.
RECURSIVE Flush(_, _)
Flush(c, writes) ==
    IF writes = <<>> THEN c
    ELSE LET w == Head(writes)
         IN  Flush(CASE w.attr = "ActivePhy-targets" -> [c EXCEPT !.targets = w.val]
                     [] w.attr = "PortSetMember-targets" ->
                            [c EXCEPT !.members = IF w.mode = "append" THEN Append(@, w.val)
                                                  ELSE <<w.val>>]
                     [] OTHER -> [c EXCEPT !.remote[Key(w.obj, w.attr)] = w.val],
                   Tail(writes))

api_apply(c) ==
    LET c1 == api(c, [Call("apply", NoHandle, None, None) EXCEPT !.n = Len(c.pending)])
    IN  IF c1.err # NoErr THEN c1
        ELSE [Flush(c1, c1.pending) EXCEPT
                  !.pending = <<>>,
                  !.staged = [k \in AttrKeys |-> None],
                  !.committed = [k \in AttrKeys |->
                                    IF c1.staged[k] # None THEN c1.staged[k] ELSE @[k]]]

api_config(c, obj, attr, val) ==
    LET c1 == api(c, Call("set", obj, attr, val))
    IN  IF c1.err # NoErr THEN c1
        ELSE [c1 EXCEPT !.pending = Append(@, Write(obj, attr, val, "set")),
                        !.staged[Key(obj, attr)] = val]

\* StcObject.set_attributes(apply_, **attributes), one attribute a call
obj_set_attributes(c, obj, apply_, attr, val) ==
    LET c1 == api_config(c, obj, attr, val)
    IN  IF apply_ THEN api_apply(c1) ELSE c1

\* StcObject.set_targets(apply_, **attributes), one target a call
obj_set_targets(c, obj, apply_, attr, ref) ==
    LET c1 == api(c, CallRef("set", obj, attr, ref))
        c2 == IF c1.err # NoErr THEN c1
              ELSE [c1 EXCEPT !.pending = Append(@, Write(obj, attr, ref, "set"))]
    IN  IF apply_ THEN api_apply(c2) ELSE c2

\* StcObject.append_attribute(attribute, value): the value joins the remote list
obj_append_attribute(c, obj, attr, ref) ==
    LET c1 == api(c, CallRef("append", obj, attr, ref))
    IN  IF c1.err # NoErr THEN c1
        ELSE [c1 EXCEPT !.pending = Append(@, Write(obj, attr, ref, "append"))]

\* StcObject.get_attribute(name) of a committed attribute
obj_get_attribute(c, obj, attr) ==
    LET c1 == api(c, Call("get", obj, attr, c.remote[Key(obj, attr)]))
    IN  IF c1.err # NoErr THEN c1 ELSE [c1 EXCEPT !.ret = c.remote[Key(obj, attr)]]

\* StcObject(parent=port, objType=type): a new remote object under the port
obj_create(c, p, type) ==
    LET c1 == api(c, Call("create", PortRef(p), type, None))
    IN  IF c1.err # NoErr THEN c1
        ELSE IF type = "LacpPortConfig" THEN [c1 EXCEPT !.lacp[p] = @ + 1]
        ELSE [c1 EXCEPT !.nextId = @ + 1]

----------------------------------------------------------------------------
(* StcPort.wait_for_states *)

\* One iteration of the loop: the LinkStatus read of the phy the port holds
\* now; a state that is not requested is followed by time.sleep(1).
poll(c, states) ==
    IF c.activephy = NoHandle THEN Raise(c, AttributeError)
    ELSE LET c1 == api(c, Call("get", c.activephy, "LinkStatus", c.link))
         IN  IF c1.err # NoErr THEN c1
             ELSE LET c2 == [c1 EXCEPT !.ret = c.link, !.seen = c.link, !.i = @ + 1]
                  IN  IF c.link \in states THEN c2 ELSE [c2 EXCEPT !.sleep = TRUE]

\* The loop after c.i iterations: the next iteration, or the raise that follows
\* the loop, which reads link_state, a name no iteration has bound when c.i = 0.
wait_loop(c, timeout, states) ==
    IF c.err # NoErr THEN c
    ELSE IF c.i >= timeout
    THEN IF c.i = 0 THEN Raise(c, UnboundLocalError)
         ELSE [Raise(c, TgnError) EXCEPT
                   !.info = [states |-> states, last |-> c.seen, timeout |-> timeout]]
    ELSE poll(c, states)

wait_for_states(c, timeout, states) ==
    IF c.err # NoErr THEN c
    ELSE wait_loop([c EXCEPT !.i = 0, !.seen = None], timeout, states)

----------------------------------------------------------------------------
(* StcPort.reserve *)

Truthy(loc) == loc \notin {None, ""}

\* Variant of the location step that writes a given location to the remote
\* attribute without storing it on the port.
reserve_location_unstored(c, loc) ==
    IF Truthy(loc)
    THEN obj_set_attributes(c, PortRef(Self), FALSE, "Location", loc)
    ELSE LET c1 == obj_get_attribute(c, PortRef(Self), "Location")
         IN  IF c1.err # NoErr THEN c1 ELSE [c1 EXCEPT !.location = c1.ret]

reserve_location(c, loc) ==
    IF Truthy(loc)
    THEN obj_set_attributes([c EXCEPT !.location = loc], PortRef(Self), FALSE, "Location", loc)
    ELSE LET c1 == obj_get_attribute(c, PortRef(Self), "Location")
         IN  IF c1.err # NoErr THEN c1 ELSE [c1 EXCEPT !.location = c1.ret]

\* Variants of reserve_attach that the properties of reserve must tell apart:
\* the apply issued before AttachPorts, the phy bound before any call is made,
\* and the apply left out.
reserve_attach_apply_first(c, force) ==
    LET c1 == api_apply(c)
        c2 == api(c1, Call("perform", PortRef(Self), "AttachPorts", BoolStr(force)))
        c3 == api(c2, Call("get", PortRef(Self), "activephy-Targets", None))
        c4 == IF c3.err # NoErr THEN c3 ELSE [c3 EXCEPT !.activephy = c3.targets]
    IN  api(c4, Call("get", c4.activephy, "*", None))

reserve_attach_bind_first(c, force) ==
    LET c0 == [c EXCEPT !.activephy = c.targets]
        c1 == api(c0, Call("perform", PortRef(Self), "AttachPorts", BoolStr(force)))
        c2 == api_apply(c1)
        c3 == api(c2, Call("get", PortRef(Self), "activephy-Targets", None))
    IN  api(c3, Call("get", c3.activephy, "*", None))

\* Variant that issues AttachPorts a second time when the first one fails.
reserve_attach_retry(c, force) ==
    LET attach == Call("perform", PortRef(Self), "AttachPorts", BoolStr(force))
        c0 == api(c, attach)
        c1 == IF c0.err = RemoteQueryError THEN api([c0 EXCEPT !.err = NoErr], attach) ELSE c0
        c2 == api_apply(c1)
        c3 == api(c2, Call("get", PortRef(Self), "activephy-Targets", None))
        c4 == IF c3.err # NoErr THEN c3 ELSE [c3 EXCEPT !.activephy = c3.targets]
    IN  api(c4, Call("get", c4.activephy, "*", None))

reserve_attach_no_apply(c, force) ==
    LET c1 == api(c, Call("perform", PortRef(Self), "AttachPorts", BoolStr(force)))
        c3 == api(c1, Call("get", PortRef(Self), "activephy-Targets", None))
        c4 == IF c3.err # NoErr THEN c3 ELSE [c3 EXCEPT !.activephy = c3.targets]
    IN  api(c4, Call("get", c4.activephy, "*", None))

\* AttachPorts goes out with AutoConnect=True always; the call's value is RevokeOwner.
reserve_attach(c, force) ==
    LET c1 == api(c, Call("perform", PortRef(Self), "AttachPorts", BoolStr(force)))
        c2 == api_apply(c1)
        c3 == api(c2, Call("get", PortRef(Self), "activephy-Targets", None))
        c4 == IF c3.err # NoErr THEN c3 ELSE [c3 EXCEPT !.activephy = c3.targets]
    IN  api(c4, Call("get", c4.activephy, "*", None))

\* Variant of reserve without the test for a local location.
reserve_always_attach(c, loc, force, wait_for_up, timeout) ==
    LET c1 == reserve_location(c, loc)
    IN  IF c1.err # NoErr THEN c1
        ELSE LET c2 == reserve_attach(c1, force)
             IN  IF wait_for_up THEN wait_for_states(c2, timeout, {"UP"})
                 ELSE c2

\* Variant of reserve that attaches only a port that holds no phy yet.
reserve_fast_path(c, loc, force, wait_for_up, timeout) ==
    LET c1 == reserve_location(c, loc)
    IN  IF c1.err # NoErr THEN c1
        ELSE IF is_local_host(c1.location) THEN c1
        ELSE LET c2 == IF c1.activephy # NoHandle THEN c1 ELSE reserve_attach(c1, force)
             IN  IF wait_for_up THEN wait_for_states(c2, timeout, {"UP"})
                 ELSE c2

\* Variant of reserve that waits for the link whatever wait_for_up is.
reserve_always_wait(c, loc, force, wait_for_up, timeout) ==
    LET c1 == reserve_location(c, loc)
    IN  IF c1.err # NoErr THEN c1
        ELSE IF is_local_host(c1.location) THEN c1
        ELSE wait_for_states(reserve_attach(c1, force), timeout, {"UP"})

reserve(c, loc, force, wait_for_up, timeout) ==
    LET c1 == reserve_location(c, loc)
    IN  IF c1.err # NoErr THEN c1
        ELSE IF is_local_host(c1.location) THEN c1
        ELSE LET c2 == reserve_attach(c1, force)
             IN  IF wait_for_up THEN wait_for_states(c2, timeout, {"UP"})
                 ELSE c2

\* Variant of resume that undoes the reservation when the wait of a reserve
\* times out.
resume_rollback(c, op) ==
    LET c1 == wait_loop(c, op.timeout, op.states)
    IN  IF c1.err = TgnError /\ op.op = "reserve"
        THEN [api([c1 EXCEPT !.err = NoErr],
                  Call("perform", PortRef(Self), "ReleasePort", None))
                 EXCEPT !.err = TgnError, !.activephy = NoHandle]
        ELSE c1

\* The handler of the call op goes on after time.sleep(1): the loop of
\* wait_for_states, after which neither wait_for_states nor reserve has a
\* statement left.
resume(c, op) == wait_loop(c, op.timeout, op.states)

----------------------------------------------------------------------------
(* StcPort.release, is_online, set_media_type, start, stop, wait, clear_results *)

\* is_local_host(self.location) where the location may still be None: the
\* predicate is then applied to no string, with the outcome left open.
LocalOutcomes(loc) ==
    IF loc = None THEN {"local", "remote", "fault"}
    ELSE IF is_local_host(loc) THEN {"local"} ELSE {"remote"}

\* Variant of release that asks the remote session once for a run of calls.
release_once(c, outcome) ==
    CASE outcome = "fault" -> Raise(c, AttributeError)
      [] outcome = "local" -> c
      [] last.op = "release" /\ last.local = "remote" -> c
      [] OTHER -> api(c, Call("perform", PortRef(Self), "ReleasePort", None))

release(c, outcome) ==
    CASE outcome = "fault" -> Raise(c, AttributeError)
      [] outcome = "local" -> c
      [] OTHER -> api(c, Call("perform", PortRef(Self), "ReleasePort", None))

is_online(c) ==
    IF c.activephy = NoHandle THEN Raise(c, AttributeError)
    ELSE LET c1 == api(c, Call("get", c.activephy, "LinkStatus", c.link))
         IN  IF c1.err # NoErr THEN c1
             ELSE [c1 EXCEPT !.ret = BoolStr(Lower(c.link) = "up")]

\* Variant of set_media_type that stages the new target without applying it.
set_media_type_no_apply(c, media_type) ==
    IF c.activephy = NoHandle THEN Raise(c, AttributeError)
    ELSE IF media_type # c.activephy.type
    THEN LET c1 == obj_create(c, Self, media_type)
             new_phy == Handle(media_type, Self, c1.nextId)
             c2 == obj_set_targets(c1, PortRef(Self), FALSE, "ActivePhy-targets", new_phy)
         IN  IF c2.err # NoErr THEN c2 ELSE [c2 EXCEPT !.activephy = new_phy]
    ELSE c

set_media_type(c, media_type) ==
    IF c.activephy = NoHandle THEN Raise(c, AttributeError)
    ELSE IF media_type # c.activephy.type
    THEN LET c1 == obj_create(c, Self, media_type)
             new_phy == Handle(media_type, Self, c1.nextId)
             c2 == obj_set_targets(c1, PortRef(Self), TRUE, "ActivePhy-targets", new_phy)
         IN  IF c2.err # NoErr THEN c2 ELSE [c2 EXCEPT !.activephy = new_phy]
    ELSE c

\* re.sub(r' \(offline\)$', '', n): the tag is removed where it stands at the
\* end of the name, or before a newline that ends the name.
strip_offline(n) ==
    IF Len(n) >= 1 /\ n[Len(n)] = Offline THEN SubSeq(n, 1, Len(n) - 1)
    ELSE IF Len(n) >= 2 /\ n[Len(n)] = Newline /\ n[Len(n) - 1] = Offline
    THEN SubSeq(n, 1, Len(n) - 2) \o <<Newline>>
    ELSE n

get_name(c) ==
    LET c1 == api(c, Call("get", PortRef(Self), "Name", portName))
    IN  IF c1.err # NoErr THEN c1 ELSE [c1 EXCEPT !.ret = strip_offline(portName)]

\* self.project.<method>(..., self)
project_call(c, method, arg) == api(c, Call("project", PortRef(Self), method, arg))

\* Variant of start that does not pass the blocking flag on.
start_non_blocking(c, blocking) == project_call(c, "start_ports", BoolStr(FALSE))

start(c, blocking) == project_call(c, "start_ports", BoolStr(blocking))
stop(c) == project_call(c, "stop_ports", None)
wait(c) == project_call(c, "wait_traffic", None)
clear_results(c) == project_call(c, "clear_results", None)

----------------------------------------------------------------------------
(* StcPort.get_children *)

\* str.lower() on the child types
LowerType(t) == CASE t = "EmulatedDevice" -> "emulateddevice"
                  [] t = "Generator" -> "generator"
                  [] OTHER -> t

\* project.get_children('emulateddevice'): the project enumerates its remote
\* emulated devices and caches them.
project_get_children(c) ==
    LET c1 == api(c, Call("get", Handle("project", None, 0), "children-emulateddevice", None))
    IN  IF c1.err # NoErr THEN c1
        ELSE [c1 EXCEPT !.projIndex = DOMAIN c1.devices, !.enums = @ + 1]

\* StcObject.get_children(*types) of the port
super_get_children(c, p, types) ==
    LET c1 == api(c, Call("get", PortRef(p), "children", None))
    IN  IF c1.err # NoErr THEN c1 ELSE [c1 EXCEPT !.kids = @ \cup types]

\* self.get_objects_by_type('emulateddevice'): the cached devices this port owns
port_get_objects_by_type(c, p) == {d \in c.projIndex : c.devices[d] = p}

get_children_devices(c, p) ==
    LET c1 == IF c.projIndex = {} THEN project_get_children(c) ELSE c
    IN  IF c1.err # NoErr THEN c1
        ELSE [c1 EXCEPT !.kids = port_get_objects_by_type(c1, p)]

get_children(c, p, given) ==
    LET types == {LowerType(t) : t \in given}
        c1 == IF "emulateddevice" \in types THEN get_children_devices(c, p) ELSE c
        rest == types \ {"emulateddevice"}
    IN  IF c1.err # NoErr THEN c1
        ELSE IF rest # {} THEN super_get_children(c1, p, rest)
        ELSE c1

----------------------------------------------------------------------------
(* StcGenerator *)

generator_get_attributes(c) ==
    LET c1 == api(c, Call("get", ConfigRef(Self), "*", None))
    IN  IF c1.err # NoErr THEN c1
        ELSE [c1 EXCEPT !.ret = c.remote[Key(ConfigRef(Self), "Duration")]]

\* Variant of StcGenerator.set_attributes that does not forward apply_.
generator_set_attributes_no_apply(c, apply_, attr, val) ==
    obj_set_attributes(c, ConfigRef(Self), FALSE, attr, val)

generator_set_attributes(c, apply_, attr, val) ==
    obj_set_attributes(c, ConfigRef(Self), apply_, attr, val)

----------------------------------------------------------------------------
(* StcLag.add_ports *)

\* Variant of the loop of add_ports that applies after every port.
RECURSIVE add_ports_loop_apply_each(_, _)
add_ports_loop_apply_each(c, ports) ==
    IF ports = <<>> THEN c
    ELSE LET stc_port == Head(ports)
             c1 == obj_append_attribute(c, LagRef, "PortSetMember-targets", PortRef(stc_port))
             c2 == IF c1.err # NoErr THEN c1 ELSE obj_create(c1, stc_port, "LacpPortConfig")
         IN  add_ports_loop_apply_each(api_apply(c2), Tail(ports))

RECURSIVE add_ports_loop(_, _)
add_ports_loop(c, ports) ==
    IF ports = <<>> THEN c
    ELSE LET stc_port == Head(ports)
             c1 == obj_append_attribute(c, LagRef, "PortSetMember-targets", PortRef(stc_port))
             c2 == IF c1.err # NoErr THEN c1 ELSE obj_create(c1, stc_port, "LacpPortConfig")
         IN  add_ports_loop(c2, Tail(ports))

\* Variant of add_ports that creates no LacpPortConfig.
RECURSIVE add_ports_members_only(_, _)
add_ports_members_only(c, ports) ==
    IF ports = <<>> THEN api_apply(c)
    ELSE add_ports_members_only(
             obj_append_attribute(c, LagRef, "PortSetMember-targets", PortRef(Head(ports))),
             Tail(ports))

add_ports(c, ports) == api_apply(add_ports_loop(c, ports))

----------------------------------------------------------------------------
(* State machine. *)

Op(name) ==
    [op |-> name, loc |-> None, force |-> FALSE, wait |-> FALSE,
     timeout |-> 0, states |-> {}, media |-> None, local |-> None,
     apply |-> FALSE, val |-> None, port |-> None, types |-> {}, ports |-> <<>>,
     err |-> NoErr, info |-> NoInfo, ret |-> None, kids |-> {},
     done |-> TRUE, woke |-> FALSE, overtaken |-> <<>>]

\* A suspended handler: its call, the calls it has issued, the iterations its
\* loop has made and the link state it read last.
Waiter(c, op) == [op |-> op, calls |-> c.calls, i |-> c.i, seen |-> c.seen]

\* The session a suspended handler goes on with.
Resume(w, failAt) ==
    [Session(failAt) EXCEPT !.calls = w.calls, !.i = w.i, !.seen = w.seen]

\* The handler of the call op has run while these were suspended.
Overtaken(ws, op) == [j \in DOMAIN ws |-> [ws[j] EXCEPT !.op.overtaken = Append(@, op.op)]]

Without(ws, k) == [j \in 1..(Len(ws) - 1) |-> IF j < k THEN ws[j] ELSE ws[j + 1]]

\* The handler's outcome becomes the next state: it has returned or raised
\* (done), or is suspended in time.sleep beside the suspended handlers others.
\* In last, woke tells a handler that went on after a sleep from one that was
\* called in this step, and overtaken names the handlers that ran while it
\* was suspended.
Commit(c, op, others) ==
    /\ budget # 0
    /\ others # <<>> => overtakes # 0
    /\ \A j \in DOMAIN others : Len(others[j].op.overtaken) < MaxOvertake
    /\ Len(others) + (IF c.sleep THEN 1 ELSE 0) <= MaxWaiters
    /\ location' = c.location
    /\ activephy' = c.activephy
    /\ link' = c.link
    /\ targets' = c.targets
    /\ remote' = c.remote
    /\ Len(c.pending) <= MaxPending
    /\ pending' = c.pending
    /\ staged' = c.staged
    /\ committed' = c.committed
    /\ nextId' = c.nextId
    /\ members' = c.members
    /\ lacp' = c.lacp
    /\ projIndex' = c.projIndex
    /\ enums' = c.enums
    /\ calls' = c.calls
    /\ last' = [op EXCEPT !.err = c.err, !.info = c.info, !.ret = c.ret, !.kids = c.kids,
                         !.done = ~c.sleep]
    /\ waiters' = Overtaken(others, op) \o (IF c.sleep THEN <<Waiter(c, op)>> ELSE <<>>)
    /\ faults' = IF c.err = RemoteQueryError THEN faults - 1 ELSE faults
    /\ budget' = IF budget = Unbounded THEN budget ELSE budget - 1
    /\ overtakes' = IF others = <<>> \/ overtakes = Unbounded THEN overtakes
                    ELSE overtakes - 1
    /\ UNCHANGED <<devices, portName>>

NoRelease == relCalls' = 0 /\ relReqs' = 0 /\ UNCHANGED passed

\* The calls of a handler that may fail: none (0), or any one it issues.
FailPoints(c) == IF faults > 0 THEN 0..Len(c.calls) ELSE {0}

Start0 ==
    /\ location = None
    /\ activephy = NoHandle
    /\ link = "DOWN"
    /\ targets = Handle("EthernetCopper", Self, 1)
    /\ \E loc \in Locations :
          remote = [k \in AttrKeys |->
                       CASE k = Key(PortRef(Self), "Location") -> loc
                         [] k = Key(ConfigRef(Self), "Duration") -> "10"
                         [] OTHER -> None]
    /\ pending = <<>>
    /\ staged = [k \in AttrKeys |-> None]
    /\ committed = [k \in AttrKeys |-> None]
    /\ nextId = 1
    /\ members = <<>>
    /\ passed = <<>>
    /\ lacp = [p \in Ports |-> 0]
    /\ \E owned \in SUBSET Devices : devices \in [owned -> ProjectPorts]
    /\ projIndex = {}
    /\ enums = 0
    /\ calls = <<>>
    /\ last = Op("init")
    /\ relCalls = 0
    /\ relReqs = 0
    /\ waiters = <<>>

NoDevices == devices = [d \in {} |-> None]
PlainName == portName = <<Text>>

\* A session whose calls all succeed, and one that may fail MaxFaults calls.
\* In the first, and in the third, handlers run while another is suspended; in
\* the second the port is used by one caller at a time.
Init ==
    /\ Start0 /\ NoDevices /\ PlainName /\ faults = 0 /\ budget = Unbounded
    /\ overtakes = Unbounded
InitFaulty ==
    /\ Start0 /\ NoDevices /\ PlainName /\ faults = MaxFaults /\ budget = Unbounded
    /\ overtakes = 0
InitFaultyOvertaken ==
    /\ Start0 /\ NoDevices /\ PlainName /\ faults = MaxFaults /\ budget = Unbounded
    /\ overtakes = Unbounded
\* A run of at most MaxSteps handler calls.
InitBounded ==
    /\ Start0 /\ NoDevices /\ PlainName /\ faults = 0 /\ budget = MaxSteps
    /\ overtakes = Unbounded

\* reserve(location, force, wait_for_up, timeout) with wait_for_up drawn from
\* waits; the timeout is read only when the call waits.
ReserveWith(waits) ==
    \E loc \in {None, ""} \cup Locations, force \in BOOLEAN, wait_for_up \in waits :
      \E timeout \in IF wait_for_up THEN 0..MaxTimeout ELSE {0} :
      \E failAt \in FailPoints(reserve(Session(0), loc, force, wait_for_up, timeout)) :
        /\ Commit(reserve(Session(failAt), loc, force, wait_for_up, timeout),
                  [Op("reserve") EXCEPT !.loc = loc, !.force = force,
                        !.wait = wait_for_up, !.timeout = timeout, !.states = {"UP"}],
                  waiters)
        /\ NoRelease

Reserve == ReserveWith(BOOLEAN)
\* reserve that returns without waiting for the link
ReserveNoWait == ReserveWith({FALSE})

WaitForStates ==
    \E timeout \in 0..MaxTimeout, states \in SUBSET LinkStates :
      \E failAt \in FailPoints(wait_for_states(Session(0), timeout, states)) :
        /\ Commit(wait_for_states(Session(failAt), timeout, states),
                  [Op("wait_for_states") EXCEPT !.timeout = timeout, !.states = states],
                  waiters)
        /\ NoRelease

\* time.sleep(1) of a suspended handler returns and the handler goes on.
Wake ==
    \E k \in DOMAIN waiters :
      \E failAt \in FailPoints(resume(Resume(waiters[k], 0), waiters[k].op)) :
        /\ Commit(resume(Resume(waiters[k], failAt), waiters[k].op),
                  [waiters[k].op EXCEPT !.woke = TRUE], Without(waiters, k))
        /\ NoRelease

Release ==
    \E outcome \in LocalOutcomes(location) :
      \E failAt \in FailPoints(release(Session(0), outcome)) :
        LET c == release(Session(failAt), outcome)
            same == last.op = "release" /\ last.local = "remote"
            n == IF same THEN relCalls ELSE 0
            r == IF same THEN relReqs ELSE 0
        IN  /\ n < MaxRepeat
            /\ Commit(c, [Op("release") EXCEPT !.local = outcome], waiters)
            /\ relCalls' = IF outcome = "remote" THEN n + 1 ELSE 0
            /\ relReqs' = IF outcome = "remote" THEN r + Len(c.calls) ELSE 0
            /\ UNCHANGED passed

IsOnline ==
    \E failAt \in FailPoints(is_online(Session(0))) :
        /\ Commit(is_online(Session(failAt)), Op("is_online"), waiters)
        /\ NoRelease

SetMediaType ==
    \E media_type \in MediaTypes :
      \E failAt \in FailPoints(set_media_type(Session(0), media_type)) :
        /\ nextId < MaxPhys
        /\ Commit(set_media_type(Session(failAt), media_type),
                  [Op("set_media_type") EXCEPT !.media = media_type], waiters)
        /\ NoRelease

Start ==
    \E blocking \in BOOLEAN :
      \E failAt \in FailPoints(start(Session(0), blocking)) :
        /\ Commit(start(Session(failAt), blocking),
                  [Op("start") EXCEPT !.val = BoolStr(blocking)], waiters)
        /\ NoRelease

Stop ==
    \E failAt \in FailPoints(stop(Session(0))) :
        /\ Commit(stop(Session(failAt)), Op("stop"), waiters)
        /\ NoRelease

Wait ==
    \E failAt \in FailPoints(wait(Session(0))) :
        /\ Commit(wait(Session(failAt)), Op("wait"), waiters)
        /\ NoRelease

ClearResults ==
    \E failAt \in FailPoints(clear_results(Session(0))) :
        /\ Commit(clear_results(Session(failAt)), Op("clear_results"), waiters)
        /\ NoRelease

SetAttributes ==
    \E apply_ \in BOOLEAN, loc \in Locations :
      \E failAt \in FailPoints(obj_set_attributes(Session(0), PortRef(Self), apply_,
                                                  "Location", loc)) :
        /\ Commit(obj_set_attributes(Session(failAt), PortRef(Self), apply_, "Location", loc),
                  [Op("set_attributes") EXCEPT !.apply = apply_, !.val = loc], waiters)
        /\ NoRelease

GeneratorSetAttributes ==
    \E apply_ \in BOOLEAN, val \in Durations :
      \E failAt \in FailPoints(generator_set_attributes(Session(0), apply_, "Duration", val)) :
        /\ Commit(generator_set_attributes(Session(failAt), apply_, "Duration", val),
                  [Op("generator.set_attributes") EXCEPT !.apply = apply_, !.val = val], waiters)
        /\ NoRelease

GeneratorGetAttributes ==
    \E failAt \in FailPoints(generator_get_attributes(Session(0))) :
        /\ Commit(generator_get_attributes(Session(failAt)), Op("generator.get_attributes"), waiters)
        /\ NoRelease

Batches == UNION {[1..n -> Ports] : n \in 0..MaxBatch}

AddPorts ==
    \E ports \in Batches :
      \E failAt \in FailPoints(add_ports(Session(0), ports)) :
        /\ Len(passed) + Len(ports) <= MaxMembers
        /\ Commit(add_ports(Session(failAt), ports), [Op("add_ports") EXCEPT !.ports = ports], waiters)
        /\ passed' = passed \o ports
        /\ relCalls' = 0 /\ relReqs' = 0

GetChildren ==
    \E p \in ProjectPorts, types \in SUBSET {"EmulatedDevice", "Generator"} :
      \E failAt \in FailPoints(get_children(Session(0), p, types)) :
        /\ enums < MaxEnums
        /\ Commit(get_children(Session(failAt), p, types),
                  [Op("get_children") EXCEPT !.port = p, !.types = types], waiters)
        /\ NoRelease

GetName ==
    \E failAt \in FailPoints(get_name(Session(0))) :
        /\ Commit(get_name(Session(failAt)), Op("get_name"), waiters)
        /\ NoRelease

\* The remote link changes state on its own.
LinkChange ==
    \E s \in LinkStates :
        /\ link # s
        /\ link' = s
        /\ UNCHANGED <<location, activephy, targets, remote, pending, staged, committed,
                       nextId, members, passed, lacp, devices, projIndex, enums, calls, last,
                       relCalls, relReqs, portName, faults, budget, waiters, overtakes>>

Next ==
    \/ Reserve \/ WaitForStates \/ Wake \/ Release \/ IsOnline \/ SetMediaType
    \/ Start \/ Stop \/ Wait \/ ClearResults \/ LinkChange

\* The port's life cycle over a session whose calls succeed, and over one
\* that may fail calls.
Spec == Init /\ [][Next]_vars
SpecFaulty == InitFaulty /\ [][Next]_vars
SpecFaultyOvertaken == InitFaultyOvertaken /\ [][Next]_vars

\* Attribute writes on the port and through its generator.
NextAttr == SetAttributes \/ GeneratorSetAttributes \/ GeneratorGetAttributes

SpecAttr == Init /\ [][NextAttr]_vars

\* Staged attribute writes followed by the handlers that issue an apply.
NextApply ==
    \/ SetAttributes \/ GeneratorSetAttributes
    \/ ReserveNoWait \/ Release \/ SetMediaType \/ AddPorts

SpecApply == InitBounded /\ [][NextApply]_vars

\* The name of a port whose remote Name is any name of at most MaxName parts.
InitName ==
    /\ Start0 /\ NoDevices /\ portName \in Names /\ faults = 0 /\ budget = Unbounded
    /\ overtakes = Unbounded

NextName == GetName

SpecName == InitName /\ [][NextName]_vars

\* The link aggregation group.
SpecLag == Init /\ [][AddPorts]_vars

\* The children of the ports of one project, which owns any of the devices.
InitChildren ==
    /\ Start0 /\ PlainName /\ faults = 0 /\ budget = Unbounded
    /\ overtakes = Unbounded

NextChildren == GetChildren

SpecChildren == InitChildren /\ [][NextChildren]_vars

----------------------------------------------------------------------------
(* Properties. *)

\* Observers of the call log of the last handler.
IsPoll(call) == call.name = "get" /\ call.arg = "LinkStatus"
Applies == {i \in DOMAIN calls : calls[i].name = "apply"}
\* The activephy-Targets read of the last handler returned: a failed handler
\* fails in the last call of its log.
BindReached ==
    \E i \in DOMAIN calls :
        /\ calls[i].arg = "activephy-Targets"
        /\ (i < Len(calls) \/ last.err # RemoteQueryError)
Occurrences(seq, p) == Cardinality({i \in DOMAIN seq : seq[i] = p})
\* No other handler ran on the port while the last handler was suspended, as
\* in the single-threaded use the library is written for.
Alone == last.overtaken = <<>>

\* C1: wait_for_states(T, S) on a bound activePhy polls LinkStatus at most T
\* times and never after a hit; it returns at the first poll whose state is in
\* S, and otherwise fails with the link state timeout (TgnError) after exactly
\* T polls, reporting S, the last observed state and T.  The polls read the
\* phy the port holds, which is one phy when no other handler replaces it
\* during the wait.
C1_WaitForStates ==
    (last.op = "wait_for_states" /\ last.done /\ activephy # NoHandle) =>
        LET n == Len(calls)
        IN  /\ \A i \in 1..n : IsPoll(calls[i])
            /\ Alone => \A i \in 1..n : calls[i].obj = activephy
            /\ n <= last.timeout
            /\ \A i \in 1..(n - 1) : calls[i].val \notin last.states
            /\ \/ last.err = NoErr /\ n >= 1 /\ calls[n].val \in last.states
               \/ /\ last.err = TgnError
                  /\ n = last.timeout
                  /\ \A i \in 1..n : calls[i].val \notin last.states
                  /\ last.info.states = last.states
                  /\ last.info.timeout = last.timeout
                  /\ n >= 1 => last.info.last = calls[n].val

\* The same for a timeout of at least one poll.
WaitForStatesFromOne == last.timeout >= 1 => C1_WaitForStates

\* A wait_for_states in whose first sleep set_media_type replaces the phy.
WaitPollsTwoHandles ==
    /\ last.op = "wait_for_states" /\ last.done /\ last.err = TgnError
    /\ last.overtaken = <<"set_media_type">>
    /\ calls = << Call("get", Handle("EthernetCopper", Self, 1), "LinkStatus", "DOWN"),
                  Call("get", Handle("EthernetFiber", Self, 2), "LinkStatus", "DOWN") >>
    /\ activephy = Handle("EthernetFiber", Self, 2)

\* C2: reserve against a non-local location with wait_for_up calls AttachPorts
\* (carrying force), then apply, then reads activephy-Targets, loads the phy's
\* attributes, and only then polls LinkStatus, at most timeout times and never
\* after UP; when it returns, the last poll saw UP, activePhy is bound, and
\* is_online on the unchanged link is true.  The phy loaded and polled is the
\* one the port holds at the end when no other handler ran during the wait.
C2_ReserveOrder ==
    (last.op = "reserve" /\ last.wait /\ ~is_local_host(location)) =>
        LET n == Len(calls)
        IN  /\ n >= 5
            /\ ~IsPoll(calls[1])
            /\ calls[2] = Call("perform", PortRef(Self), "AttachPorts", BoolStr(last.force))
            /\ calls[3].name = "apply"
            /\ calls[4] = Call("get", PortRef(Self), "activephy-Targets", None)
            /\ calls[5].name = "get" /\ calls[5].arg = "*"
            /\ \A i \in 6..n : IsPoll(calls[i])
            /\ Alone =>
                  /\ calls[5] = Call("get", activephy, "*", None)
                  /\ \A i \in 6..n : calls[i].obj = activephy
            /\ n - 5 <= last.timeout
            /\ \A i \in 6..(n - 1) : calls[i].val # "UP"
            /\ (last.done /\ last.err = NoErr) =>
                  /\ n >= 6
                  /\ calls[n].val = "UP"
                  /\ activephy # NoHandle
                  /\ link = "UP" => is_online(Session(0)).ret = BoolStr(TRUE)

C2_Witness ==
    /\ last.op = "reserve" /\ last.wait /\ last.force /\ last.err = NoErr
    /\ last.done /\ Alone
    /\ ~is_local_host(location)
    /\ last.timeout = 2 /\ Len(calls) = 7
    /\ calls[6].val = "DOWN" /\ calls[7].val = "UP"
    /\ link = "UP"

\* A reserve in whose first sleep set_media_type replaces the phy: it polls the
\* phy it bound, then the new one, and times out with the new one held.
PollsTwoHandles ==
    /\ last.op = "reserve" /\ last.done /\ last.err = TgnError /\ last.timeout = 2
    /\ last.overtaken = <<"set_media_type">>
    /\ Len(calls) = 7
    /\ calls[5].obj = Handle("EthernetCopper", Self, 1)
    /\ calls[6] = Call("get", Handle("EthernetCopper", Self, 1), "LinkStatus", "DOWN")
    /\ calls[7] = Call("get", Handle("EthernetFiber", Self, 2), "LinkStatus", "DOWN")
    /\ activephy = Handle("EthernetFiber", Self, 2)
    /\ nextId = 2

\* A reserve in whose sleep release runs and the link comes up: ReleasePort
\* went out between AttachPorts and the last poll, and reserve returns.
ReleasedWhileWaiting ==
    /\ last.op = "reserve" /\ last.done /\ last.err = NoErr /\ last.timeout = 2
    /\ last.overtaken = <<"release">>
    /\ Len(calls) = 7 /\ calls[2].arg = "AttachPorts"
    /\ calls[6].val = "DOWN" /\ calls[7].val = "UP"

\* A reserve suspended in its first sleep, and the release that runs meanwhile.
ReserveAsleep ==
    /\ last.op = "reserve" /\ ~last.done /\ last.err = NoErr
    /\ Len(waiters) = 1 /\ waiters[1].calls = calls /\ waiters[1].i = 1
    /\ Len(calls) = 6 /\ calls[6].val = "DOWN"

ReleaseOvertakes ==
    /\ last.op = "release" /\ last.done
    /\ calls = <<Call("perform", PortRef(Self), "ReleasePort", None)>>
    /\ Len(waiters) = 1 /\ waiters[1].op.op = "reserve"
    /\ waiters[1].op.overtaken = <<"release">>

\* C3 as stated: after a reserve whose resolved location is local, whatever
\* force, wait_for_up and timeout are, no AttachPorts, apply or LinkStatus call
\* was issued and activePhy is unbound.
C3_Original ==
    (last.op = "reserve" /\ is_local_host(location)) =>
        /\ \A i \in DOMAIN calls :
              /\ calls[i].arg # "AttachPorts"
              /\ calls[i].name # "apply"
              /\ ~IsPoll(calls[i])
        /\ activephy = NoHandle

\* C3: a reserve whose resolved location is local, whatever force, wait_for_up
\* and timeout are, issues no AttachPorts, no apply and no LinkStatus poll, and
\* leaves activePhy as it was: unbound on a port no reserve has bound, and
\* still bound when an earlier reserve against a non-local location bound it.
\* (The location of the port is the one the reserve resolved when no other
\* handler ran during it.)
C3_LocalReserve ==
    [][(last'.op = "reserve" /\ Alone' /\ is_local_host(location')) =>
          /\ \A i \in DOMAIN calls' :
                /\ calls'[i].arg # "AttachPorts"
                /\ calls'[i].name # "apply"
                /\ ~IsPoll(calls'[i])
          /\ activephy' = activephy]_vars

C3_Witness ==
    /\ last.op = "reserve" /\ last.force /\ last.wait /\ last.timeout = 2
    /\ last.err = NoErr
    /\ is_local_host(location)
    /\ activephy # NoHandle
    /\ Len(calls) = 1

\* C4: while activePhy is unbound, is_online and wait_for_states are guarded:
\* they do nothing or fail with a precondition error of their own, and never
\* fault on the missing handle.
C4_Guarded ==
    (last.op \in {"is_online", "wait_for_states"} /\ activephy = NoHandle) =>
        /\ last.err \in {NoErr, "PreconditionError"}
        /\ calls = <<>>

\* C5 as stated: a reserve that failed, by a remote error or by the link state
\* timeout, or that targeted a local location, never leaves activePhy bound.
C5_Original ==
    (last.op = "reserve" /\ last.err \in {RemoteQueryError, TgnError}) =>
        activephy = NoHandle

\* C5: activePhy becomes bound only in a reserve against a non-local location
\* whose activephy-Targets read returned, whether or not the call then fails;
\* a reserve against a local location, or one that fails before that read
\* returns, leaves activePhy as it was; a bound activePhy stays bound.
C5_BoundOnlyByAttach ==
    [][/\ (activephy = NoHandle /\ activephy' # NoHandle) =>
              /\ last'.op = "reserve"
              /\ ~is_local_host(location')
              /\ BindReached'
       /\ (last'.op = "reserve" /\ (is_local_host(location') \/ ~BindReached')) =>
              activephy' = activephy
       /\ activephy # NoHandle => activephy' # NoHandle]_vars

C5_Witness ==
    /\ last.op = "reserve"
    /\ last.err \in {RemoteQueryError, TgnError}
    /\ BindReached
    /\ activephy # NoHandle

\* C6: after add_ports calls, the group's members are the references of every
\* port passed, in argument order, behind those of earlier calls; every port
\* has one LacpPortConfig child for each time it was passed; and each call
\* appends and creates port by port before its one, final apply.
C6_AddPorts ==
    /\ Len(members) = Len(passed)
    /\ \A i \in DOMAIN passed : members[i] = PortRef(passed[i])
    /\ \A p \in Ports : lacp[p] = Occurrences(passed, p)
    /\ last.op = "add_ports" =>
          /\ Len(calls) = 2 * Len(last.ports) + 1
          /\ \A k \in DOMAIN last.ports :
                /\ calls[2 * k - 1] =
                      CallRef("append", LagRef, "PortSetMember-targets", PortRef(last.ports[k]))
                /\ calls[2 * k] = Call("create", PortRef(last.ports[k]), "LacpPortConfig", None)
          /\ Applies = {Len(calls)}

C6_Witness ==
    /\ last.op = "add_ports"
    /\ last.ports = <<"port3">>
    /\ passed = <<"port1", "port2", "port3">>
    /\ members = <<PortRef("port1"), PortRef("port2"), PortRef("port3")>>

\* C7: get_children('EmulatedDevice') returns only devices the port owns, and
\* the project enumerates its emulated devices at most once however many
\* requests are made.
C7_EnumeratedOnce ==
    /\ enums <= 1
    /\ (last.op = "get_children" /\ "EmulatedDevice" \in last.types /\ last.err = NoErr) =>
          \A d \in last.kids \cap Devices : d \in DOMAIN devices /\ devices[d] = last.port

\* The same for a project that owns at least one emulated device.
EnumeratedOnceWithDevices == DOMAIN devices # {} => C7_EnumeratedOnce

\* C8 as stated: reserve, set_media_type and add_ports leave the attribute
\* writes that were pending when they were called pending and uncommitted.
C8_Original ==
    [][(last'.op \in {"reserve", "set_media_type", "add_ports"} /\ pending # <<>>) =>
          /\ Len(pending') >= Len(pending)
          /\ SubSeq(pending', 1, Len(pending)) = pending
          /\ remote' = remote]_vars

\* C8: a handler that issues no apply leaves the pending writes pending, in
\* order, and the committed values as they were; a handler that issues an
\* apply commits every pending write with it, each attribute taking the value
\* staged for it unless the handler itself wrote it; and the handlers that issue one
\* are set_attributes with apply_, reserve against a non-local location,
\* set_media_type when it changes the phy, and add_ports.
C8_FlushOnApply ==
    [][LET hasApply == \E i \in DOMAIN calls' : calls'[i].name = "apply"
       IN  /\ hasApply =>
                 /\ pending' = <<>>
                 /\ \E i \in DOMAIN calls' :
                       calls'[i].name = "apply" /\ calls'[i].n >= Len(pending)
                 /\ \A k \in AttrKeys :
                       staged[k] # None =>
                          /\ committed'[k] # None /\ remote'[k] = committed'[k]
                          /\ remote'[k] \in {staged[k], last'.val, last'.loc}
           /\ ~hasApply =>
                 /\ Len(pending') >= Len(pending)
                 /\ SubSeq(pending', 1, Len(pending)) = pending
                 /\ remote' = remote /\ targets' = targets /\ members' = members
           /\ last'.op = "reserve" => (hasApply <=> ~is_local_host(location'))
           /\ last'.op = "set_media_type" => (hasApply <=> activephy' # activephy)
           /\ last'.op = "add_ports" => hasApply
           /\ last'.op \in {"set_attributes", "generator.set_attributes"} =>
                 (hasApply <=> last'.apply)
           /\ last'.op = "release" => ~hasApply]_vars

\* Two writes staged by set_attributes without apply_, then reserve on the
\* local location it is given: no apply is issued, and the two writes are still
\* pending, in the order staged, before the Location write of reserve itself.
C8_Witness ==
    /\ last.op = "reserve" /\ last.loc = LocalLoc /\ last.err = NoErr
    /\ Applies = {}
    /\ pending = << Write(ConfigRef(Self), "Duration", "20", "set"),
                   Write(PortRef(Self), "Location", RemoteLoc, "set"),
                   Write(PortRef(Self), "Location", LocalLoc, "set") >>
    /\ \A k \in AttrKeys : committed[k] = None

\* set_attributes without apply_ called while two writes are pending: the
\* pending writes stay, in order, and the new one is staged behind them.
ThreeWritesBuffered ==
    /\ last.op = "set_attributes" /\ ~last.apply /\ last.err = NoErr
    /\ Applies = {}
    /\ Len(pending) = MaxSteps
    /\ pending[1] = Write(ConfigRef(Self), "Duration", "10", "set")
    /\ pending[2] = Write(ConfigRef(Self), "Duration", "20", "set")
    /\ pending[3] = Write(PortRef(Self), "Location", last.val, "set")

\* release called while two writes are pending leaves both pending.
BufferedAcrossRelease ==
    /\ last.op = "release" /\ last.err = NoErr
    /\ Applies = {}
    /\ pending = << Write(PortRef(Self), "Location", RemoteLoc, "set"),
                   Write(ConfigRef(Self), "Duration", "10", "set") >>

\* reserve with no location given, against a non-local remote Location, called
\* while two writes are pending: its apply commits both.
ReserveFlushesTwo ==
    /\ last.op = "reserve" /\ last.loc = None /\ last.err = NoErr
    /\ \E i \in Applies : calls[i].n = 2
    /\ pending = <<>>
    /\ committed[Key(ConfigRef(Self), "Duration")] = "20"
    /\ remote[Key(ConfigRef(Self), "Duration")] = "20"
    /\ committed[Key(PortRef(Self), "Location")] = RemoteLoc
    /\ remote[Key(PortRef(Self), "Location")] = RemoteLoc

\* set_media_type replacing the active phy while a write is pending: its apply
\* commits the write together with the new phy.
SetMediaTypeFlushes ==
    /\ last.op = "set_media_type" /\ last.err = NoErr
    /\ \E i \in Applies : calls[i].n = 2
    /\ pending = <<>>
    /\ activephy # NoHandle /\ targets = activephy
    /\ committed[Key(ConfigRef(Self), "Duration")] = "10"
    /\ remote[Key(ConfigRef(Self), "Duration")] = "10"

\* C9: after an apply every attribute holds the last value staged for it in
\* the batch; the generator keeps no attribute of its own: its set_attributes
\* writes to its GeneratorConfig child and forwards apply_ unchanged, and its
\* get_attributes reads the child.
C9_LastWriteWins ==
    /\ \A k \in AttrKeys : committed[k] # None => remote[k] = committed[k]
    /\ remote[Key(GeneratorRef(Self), "Duration")] = None
    /\ staged[Key(GeneratorRef(Self), "Duration")] = None
    /\ last.op = "generator.set_attributes" =>
          /\ calls[1] = Call("set", ConfigRef(Self), "Duration", last.val)
          /\ Len(calls) = IF last.apply THEN 2 ELSE 1
          /\ last.apply =>
                /\ calls[2].name = "apply"
                /\ pending = <<>>
                /\ remote[Key(ConfigRef(Self), "Duration")] = last.val
          /\ ~last.apply => staged[Key(ConfigRef(Self), "Duration")] = last.val
    /\ (last.op = "set_attributes" /\ last.apply) =>
          /\ pending = <<>>
          /\ remote[Key(PortRef(Self), "Location")] = last.val
    /\ last.op = "generator.get_attributes" =>
          /\ calls = <<Call("get", ConfigRef(Self), "*", None)>>
          /\ last.ret = remote[Key(ConfigRef(Self), "Duration")]

\* A batch of two writes to the generator's Duration, committed by one apply.
C9_Witness ==
    /\ last.op = "generator.set_attributes" /\ last.apply /\ last.val = "20"
    /\ Len(calls) = 2 /\ calls[2].n = 2
    /\ committed[Key(PortRef(Self), "Location")] = None
    /\ remote[Key(ConfigRef(Self), "Duration")] = "20"

\* C10: release on a port whose location is non-local issues exactly one
\* ReleasePort request, so n calls in a row issue n; on a local location it
\* issues none; and it never changes location or activePhy.
C10_Release ==
    [][last'.op = "release" =>
          /\ location' = location
          /\ activephy' = activephy
          /\ (location # None /\ is_local_host(location)) => calls' = <<>>
          /\ (location # None /\ ~is_local_host(location)) =>
                /\ calls' = <<Call("perform", PortRef(Self), "ReleasePort", None)>>
                /\ relReqs' = relCalls']_vars

C10_Witness ==
    /\ last.op = "release"
    /\ relCalls = 2 /\ relReqs = 2
    /\ activephy # NoHandle
    /\ ~is_local_host(location)

\* A step of a handler: the link changes only on its own, never in a handler
\* that issues no poll.
HandlerStep == link' = link

\* C11: set_media_type on a bound activePhy with a type other than the phy's
\* creates exactly one object of that type under the port, sets the port's
\* ActivePhy target to it, applies at once and binds activePhy to the new
\* object, deleting nothing; with the phy's own type it issues no call and
\* leaves activePhy as it is.
C11_SetMediaType ==
    [][(last'.op = "set_media_type" /\ HandlerStep /\ activephy # NoHandle) =>
          IF last'.media # activephy.type
          THEN LET new_phy == Handle(last'.media, Self, nextId + 1)
               IN  /\ Len(calls') = 3
                   /\ calls'[1] = Call("create", PortRef(Self), last'.media, None)
                   /\ calls'[2] = CallRef("set", PortRef(Self), "ActivePhy-targets", new_phy)
                   /\ calls'[3].name = "apply" /\ calls'[3].n >= 1
                   /\ activephy' = new_phy
                   /\ activephy' # activephy
                   /\ nextId' = nextId + 1
                   /\ pending' = <<>>
                   /\ last'.err = NoErr
          ELSE /\ calls' = <<>>
               /\ activephy' = activephy
               /\ nextId' = nextId
               /\ pending' = pending
               /\ last'.err = NoErr]_vars

C11_Witness ==
    /\ last.op = "set_media_type" /\ last.media = "EthernetFiber" /\ last.err = NoErr
    /\ activephy = Handle("EthernetFiber", Self, 2)
    /\ nextId = 2
    /\ Len(calls) = 3

\* C12: get_name returns the remote Name without a trailing offline tag, and
\* a Name that does not end in the tag unchanged; stripping is idempotent, so
\* the returned name never ends in the tag.
EndsOffline(n) == Len(n) >= 1 /\ n[Len(n)] = Offline

C12_GetName ==
    (last.op = "get_name" /\ last.err = NoErr) =>
        /\ last.ret = IF EndsOffline(portName) THEN SubSeq(portName, 1, Len(portName) - 1) ELSE portName
        /\ strip_offline(strip_offline(portName)) = strip_offline(portName)
        /\ ~EndsOffline(last.ret)

\* The same for a Name without a newline that holds the tag at most once.
GetNameOneTag ==
    (/\ \A i \in DOMAIN portName : portName[i] # Newline
     /\ Cardinality({i \in DOMAIN portName : portName[i] = Offline}) <= 1) => C12_GetName

\* C13: for every timeout from 0 up, a wait_for_states on a bound activePhy
\* that observes no requested state fails with the link state timeout
\* (TgnError) carrying the requested states, the last observed state and the
\* timeout, and with no other error.
C13_TimeoutTyped ==
    (/\ last.op = "wait_for_states" /\ last.done /\ activephy # NoHandle
     /\ \A i \in DOMAIN calls : calls[i].val \notin last.states) =>
        /\ last.err = TgnError
        /\ Len(calls) = last.timeout
        /\ last.info.states = last.states
        /\ last.info.timeout = last.timeout
        /\ Len(calls) >= 1 => last.info.last = calls[Len(calls)].val

\* The same for a timeout of at least one poll.
TimeoutTypedFromOne == last.timeout >= 1 => C13_TimeoutTyped

\* The calls of the last handler that failed.
Failed == {i \in DOMAIN calls : ~calls[i].ok}

\* C14: a remote call that fails inside reserve ends the reserve with that
\* error: it is the last call reserve issues and is not issued again.  When it
\* is AttachPorts, reserve has issued no apply, no activephy-Targets read and
\* no LinkStatus poll and has not bound activePhy; when it is a LinkStatus
\* read, no poll follows it.
C14_FailFast ==
    [][last'.op = "reserve" =>
          /\ \A i \in Failed' : i = Len(calls') /\ last'.err = RemoteQueryError
          /\ last'.err = RemoteQueryError => Failed' = {Len(calls')}
          /\ \A i \in Failed' :
                calls'[i].arg = "AttachPorts" =>
                    /\ \A j \in DOMAIN calls' :
                          /\ calls'[j].name # "apply"
                          /\ calls'[j].arg # "activephy-Targets"
                          /\ ~IsPoll(calls'[j])
                    /\ Cardinality({j \in DOMAIN calls' : calls'[j].arg = "AttachPorts"}) = 1
                    /\ activephy' = activephy
          /\ \A i \in Failed' :
                IsPoll(calls'[i]) =>
                    /\ \A j \in DOMAIN calls' : IsPoll(calls'[j]) => j <= i
                    /\ Cardinality({j \in DOMAIN calls' : IsPoll(calls'[j])}) <= last'.timeout]_vars

\* AttachPorts failed in a reserve on a new port.
C14_Witness ==
    /\ last.op = "reserve" /\ last.wait /\ last.err = RemoteQueryError
    /\ Len(calls) = 2 /\ calls[2].arg = "AttachPorts" /\ ~calls[2].ok
    /\ activephy = NoHandle

\* The second of two LinkStatus reads failed in a reserve.
FailedPollReached ==
    /\ last.op = "reserve" /\ last.err = RemoteQueryError
    /\ Len(calls) = 7 /\ IsPoll(calls[7]) /\ ~calls[7].ok

\* C15: a reserve that waits on a non-local location and ends in the link
\* state timeout hands the caller that error as wait_for_states raised it and
\* undoes nothing: no ReleasePort is issued, AttachPorts and its apply stand,
\* location and activePhy stay set, and an is_online or wait_for_states called
\* next reads LinkStatus of the bound phy, which is the phy reserve polled last
\* when no other handler ran during the wait.
C15_NoRollback ==
    (last.op = "reserve" /\ last.err = TgnError) =>
        LET n == Len(calls)
        IN  /\ last.wait /\ last.timeout >= 1 /\ last.done
            /\ last.info = [states |-> {"UP"}, last |-> calls[n].val, timeout |-> last.timeout]
            /\ n = 5 + last.timeout
            /\ \A i \in DOMAIN calls : calls[i].arg # "ReleasePort" /\ calls[i].ok
            /\ calls[2].arg = "AttachPorts" /\ calls[3].name = "apply"
            /\ location # None
            /\ activephy # NoHandle
            /\ Alone => (~is_local_host(location) /\ activephy = calls[n].obj)
            /\ is_online(Session(0)).err = NoErr
            /\ is_online(Session(0)).calls = <<Call("get", activephy, "LinkStatus", link)>>
            /\ is_online(Session(0)).ret = BoolStr(link = "UP")
            /\ wait_for_states(Session(0), 1, {"UP"}).calls =
                   <<Call("get", activephy, "LinkStatus", link)>>

C15_Witness ==
    /\ last.op = "reserve" /\ last.err = TgnError /\ last.timeout = 2
    /\ last.done /\ last.woke /\ Alone
    /\ Len(calls) = 7 /\ calls[6].val = "DOWN" /\ calls[7].val = "DOWN"
    /\ activephy # NoHandle /\ location = RemoteLoc
    /\ link = "DOWN"

\* A step in which only the link changes.
LinkStep ==
    link' # link /\ UNCHANGED <<last, calls, location, activephy, remote, pending, staged>>

\* C16: reserve resolves the location first.  Given a location, it stores it
\* on the port and issues the write of the remote Location before any other
\* call; given none, it reads the remote Location first and adopts the value
\* read; and it attaches exactly when the resolved location is not local.  The
\* location of the port is the resolved one when no other handler ran during
\* the reserve; the value read is the remote Location at the time of the call.
C16_ResolveFirst ==
    [][(last'.op = "reserve" /\ ~LinkStep) =>
          /\ Len(calls') >= 1
          /\ Truthy(last'.loc) =>
                /\ Alone' => location' = last'.loc
                /\ calls'[1] = Call("set", PortRef(Self), "Location", last'.loc)
          /\ ~Truthy(last'.loc) =>
                /\ calls'[1].name = "get" /\ calls'[1].obj = PortRef(Self)
                /\ calls'[1].arg = "Location"
                /\ ~last'.woke => calls'[1].val = remote[Key(PortRef(Self), "Location")]
                /\ Alone' => location' = calls'[1].val
          /\ \A i \in DOMAIN calls' : calls'[i].arg = "AttachPorts" => i = 2
          /\ Alone' => ((\E i \in DOMAIN calls' : calls'[i].arg = "AttachPorts")
                            <=> ~is_local_host(location'))]_vars

\* The write of a given location is committed by the apply of the attach, and
\* stays staged when the location is local.
LocationWriteStaged ==
    (last.op = "reserve" /\ Alone /\ Truthy(last.loc)) =>
        IF is_local_host(location)
        THEN /\ staged[Key(PortRef(Self), "Location")] = last.loc
             /\ pending # <<>>
             /\ pending[Len(pending)] = Write(PortRef(Self), "Location", last.loc, "set")
        ELSE /\ remote[Key(PortRef(Self), "Location")] = last.loc
             /\ pending = <<>>

\* No location given, and the remote Location read is local: nothing attached.
C16_Witness ==
    /\ last.op = "reserve" /\ last.loc = None /\ last.err = NoErr
    /\ location = LocalLoc
    /\ calls = <<Call("get", PortRef(Self), "Location", LocalLoc)>>
    /\ activephy = NoHandle

\* A location given while the remote Location is another one: the given one
\* decides.
GivenLocationDecides ==
    /\ last.op = "reserve" /\ last.loc = RemoteLoc /\ location = RemoteLoc
    /\ committed[Key(PortRef(Self), "Location")] = RemoteLoc
    /\ Len(calls) >= 5

\* C17: every reserve on a non-local location, also on a port that an earlier
\* reserve has bound, issues AttachPorts once, then apply, then reads
\* activephy-Targets and binds activePhy to the phy read; so each call issues
\* its own AttachPorts.
C17_AlwaysAttach ==
    [][(last'.op = "reserve" /\ ~LinkStep /\ ~is_local_host(location')) =>
          /\ {i \in DOMAIN calls' : calls'[i].arg = "AttachPorts"} = {2}
          /\ calls'[2] = Call("perform", PortRef(Self), "AttachPorts", BoolStr(last'.force))
          /\ {i \in DOMAIN calls' : calls'[i].name = "apply"} = {3}
          /\ {i \in DOMAIN calls' : calls'[i].arg = "activephy-Targets"} = {4}
          /\ activephy' = targets'
          /\ activephy' # NoHandle
          /\ calls'[5].name = "get" /\ calls'[5].arg = "*"
          /\ Alone' => calls'[5] = Call("get", activephy', "*", None)]_vars

\* A reserve on a port that was reserved before and whose phy was replaced
\* since: it attaches again and binds the current phy.
C17_Witness ==
    /\ last.op = "reserve" /\ last.err = NoErr /\ ~last.wait
    /\ ~is_local_host(location)
    /\ nextId = 2
    /\ activephy = Handle("EthernetFiber", Self, 2)
    /\ Len(calls) = 5 /\ calls[2].arg = "AttachPorts"

\* C18: a reserve on a non-local location that is told not to wait returns
\* after binding activePhy and loading its attributes: it makes no LinkStatus
\* poll and does not fail, whatever the link state is.
C18_NoWait ==
    (last.op = "reserve" /\ ~last.wait /\ ~is_local_host(location)) =>
        /\ Len(calls) = 5
        /\ calls[4].arg = "activephy-Targets"
        /\ calls[5] = Call("get", activephy, "*", None)
        /\ \A i \in DOMAIN calls : ~IsPoll(calls[i])
        /\ activephy # NoHandle
        /\ last.err = NoErr
        /\ last.info = NoInfo

\* The link is down, and was never read.
C18_Witness ==
    /\ last.op = "reserve" /\ ~last.wait /\ last.err = NoErr
    /\ location = RemoteLoc
    /\ link = "DOWN"
    /\ activephy # NoHandle
    /\ Len(calls) = 5

\* C19: add_ports issues exactly one apply in a call, as its last remote call,
\* after the append and the LacpPortConfig creation of every port of the batch;
\* that apply commits the member writes of the whole batch.
C19_OneApply ==
    last.op = "add_ports" =>
        LET n == Len(calls)
        IN  /\ n >= 1
            /\ Cardinality(Applies) = 1
            /\ calls[n].name = "apply"
            /\ calls[n].n = Len(last.ports)
            /\ \A i \in 1..(n - 1) : calls[i].name \in {"append", "create"}
            /\ Cardinality({i \in DOMAIN calls : calls[i].name = "append"}) = Len(last.ports)
            /\ Cardinality({i \in DOMAIN calls : calls[i].name = "create"}) = Len(last.ports)
            /\ pending = <<>>

C19_Witness ==
    /\ last.op = "add_ports" /\ last.err = NoErr
    /\ last.ports = <<"port2", "port1">>
    /\ Len(calls) = 5
    /\ calls[5].name = "apply" /\ calls[5].n = 2
    /\ \A i \in 1..4 : calls[i].name # "apply"

\* C20: start, stop, wait and clear_results each issue exactly one call, to
\* the project, of start_ports with the blocking flag, stop_ports, wait_traffic
\* or clear_results, for this port alone, whether or not the port is reserved,
\* and leave location and activePhy as they are.
ProjectMethod(op) ==
    CASE op = "start" -> "start_ports"
      [] op = "stop" -> "stop_ports"
      [] op = "wait" -> "wait_traffic"
      [] op = "clear_results" -> "clear_results"

C20_Delegation ==
    [][last'.op \in {"start", "stop", "wait", "clear_results"} =>
          /\ calls' = <<Call("project", PortRef(Self), ProjectMethod(last'.op), last'.val)>>
          /\ last'.op = "start" => last'.val \in {BoolStr(TRUE), BoolStr(FALSE)}
          /\ last'.op # "start" => last'.val = None
          /\ last'.err = NoErr
          /\ location' = location
          /\ activephy' = activephy
          /\ pending' = pending /\ remote' = remote /\ targets' = targets]_vars

\* A blocking start on a reserved port.
C20_Witness ==
    /\ last.op = "start" /\ last.val = BoolStr(TRUE)
    /\ calls = <<Call("project", PortRef(Self), "start_ports", "True")>>
    /\ activephy # NoHandle /\ location = RemoteLoc

\* A stop on a port that was never reserved.
StopUnreserved ==
    /\ last.op = "stop" /\ activephy = NoHandle /\ location = None
    /\ calls = <<Call("project", PortRef(Self), "stop_ports", None)>>

====
